---- MODULE Spec2Model ----
(***************************************************************************)
(* The cipher endpoints of src/src/api/core/ciphers.rs as a state machine. *)
(* The state is the three tables behind DbConn (ciphers, folders,          *)
(* attachments), the attachment files on disk, the generators of fresh     *)
(* identifiers, and the request just handled with its response.  Every     *)
(* route handler is one action: a request runs to completion before the    *)
(* next one starts.  The specifications of concurrent requests run the     *)
(* replace and the upload handler in the steps between their accesses to   *)
(* the database and the files.                                             *)
(***************************************************************************)
EXTENDS Integers, Sequences, FiniteSets, TLC

VARIABLES
    ciphers,        \* cipher table: uuid -> row
    folders,        \* folder table: uuid -> row
    attachments,    \* attachment table: id (the generated file name) -> row
    blobs,          \* files under CONFIG.attachments_folder: <<cipher uuid, file name>>
    next_cipher,    \* the next fresh cipher uuid
    next_folder,    \* the next fresh folder uuid
    next_file,      \* the next fresh attachment file name
    last,           \* the request handled last and its response
    inflight        \* the requests under way, by connection: their position and locals

vars == <<ciphers, folders, attachments, blobs, next_cipher, next_folder, next_file, last,
          inflight>>

\* ------------------------------------------------------------------ bounds

\* Uuids a run may hand out, per table.
MaxCiphers == 2
MaxFolders == 1
MaxFiles == 2
\* The same for the specification of the merger, which needs a folder of each
\* user, and for the one of replace.
MergeCiphers == 1
MergeFolders == 2
ReplaceCiphers == 1
\* Parts of one multipart upload, and the file names the upload specification
\* may hand out.
MaxParts == 2
UploadFiles == 2
\* Lengths of the three lists of one import request.
MaxImportCiphers == 3
MaxImportFolders == 2
MaxRelations == 2
\* Connections that carry one request each in the specifications of concurrent
\* requests, and the uuids those specifications may hand out.
MaxInflight == 2
RaceCiphers == 1
StepCiphers == 1
StepParts == 2

\* ------------------------------------------------------------------ values

Users == {"u1", "u2"}

\* Option<T>: None, or Some(x).
None == <<>>
Some(x) == <<x>>

\* serde_json::Value.
JNull == [t |-> "null", v |-> <<>>]
JString(s) == [t |-> "string", v |-> s]
JArray(seq) == [t |-> "array", v |-> seq]
JObject(map) == [t |-> "object", v |-> map]

\* An Option<String> serialised by json!: null or the string.
JOptString(o) == IF o = None THEN JNull ELSE JString(o[1])

as_object(value) == IF value.t = "object" THEN Some(value.v) ELSE None
as_array(value) == IF value.t = "array" THEN Some(value.v) ELSE None

\* Value::to_string / serde_json::to_string: the text of a value.  The empty
\* String is the text of no value.
String_new == [text |-> <<>>]
to_string(value) == [text |-> <<value>>]

\* Object keys are strings of character codes, so that the first character can
\* be upper-cased and keys can be visited in order.
ToUpper(c) == IF c >= 97 /\ c <= 122 THEN c - 32 ELSE c

upcase_first(s) == IF Len(s) = 0 THEN s ELSE <<ToUpper(s[1])>> \o Tail(s)

\* The order of a serde_json Map's iteration: keys ascending.
KeyLess(a, b) ==
    \E i \in 1..(Len(a) + 1) :
        /\ \A j \in 1..(i - 1) : j <= Len(b) /\ a[j] = b[j]
        /\ \/ i = Len(a) + 1 /\ Len(b) >= i
           \/ i <= Len(a) /\ i <= Len(b) /\ a[i] < b[i]

FirstKey(keys) == CHOOSE k \in keys : \A o \in keys \ {k} : KeyLess(k, o)

\* to[key] = val on an object.
IndexSet(map, key, val) ==
    [k \in DOMAIN map \cup {key} |-> IF k = key THEN val ELSE map[k]]

\* Mutant: a key the target already has keeps its value.
RECURSIVE copy_loop_keep_existing(_, _, _)
copy_loop_keep_existing(map, keys, to) ==
    IF keys = {} THEN to
    ELSE LET key == FirstKey(keys)
         IN copy_loop_keep_existing(map, keys \ {key},
                IF upcase_first(key) \in DOMAIN to THEN to
                ELSE IndexSet(to, upcase_first(key), map[key]))

RECURSIVE copy_loop(_, _, _)
copy_loop(map, keys, to) ==
    IF keys = {} THEN to
    ELSE LET key == FirstKey(keys)
         IN copy_loop(map, keys \ {key}, IndexSet(to, upcase_first(key), map[key]))

\* Mutant: the entries are written under the keys as they come.
copy_values_verbatim_keys(from, to) ==
    IF as_object(from) = None
    THEN [ok |-> FALSE, to |-> to]
    ELSE [ok |-> TRUE,
          to |-> JObject([k \in DOMAIN to.v \cup DOMAIN from.v |->
                             IF k \in DOMAIN from.v THEN from.v[k] ELSE to.v[k]])]

\* copy_values(from, to) -> bool: the flag and the target afterwards.
copy_values(from, to) ==
    IF as_object(from) = None
    THEN [ok |-> FALSE, to |-> to]
    ELSE [ok |-> TRUE,
          to |-> JObject(copy_loop(from.v, DOMAIN from.v, to.v))]

\* Keys of the envelope and of the typed payloads the requests carry.
kName == <<78, 97, 109, 101>>             \* "Name"
kNotes == <<78, 111, 116, 101, 115>>      \* "Notes"
kFields == <<70, 105, 101, 108, 100, 115>> \* "Fields"
kUri == <<117, 114, 105>>                 \* "uri"
kType == <<116, 121, 112, 101>>           \* "type"
kCode == <<99, 111, 100, 101>>            \* "code"
kSsn == <<115, 115, 110>>                 \* "ssn"
kValue == <<118, 97, 108, 117, 101>>      \* "value"
kname == <<110, 97, 109, 101>>            \* "name"
kusername == <<117, 115, 101, 114, 110, 97, 109, 101>>  \* "username"
kpassword == <<112, 97, 115, 115, 119, 111, 114, 100>>  \* "password"

\* ------------------------------------------------------------------ tables

\* User::check_valid_password: each user's master password hash.
password_hash == [u \in Users |-> IF u = "u1" THEN "hash1" ELSE "hash2"]

check_valid_password(user, hash) == hash = password_hash[user]

\* Cipher::new: a fresh row, in no folder and no organization, without notes,
\* custom fields or payload.
Cipher_new(uuid, user_uuid, type_, name, favorite) ==
    [uuid |-> uuid, user_uuid |-> user_uuid, folder_uuid |-> None,
     organization_uuid |-> None, type_ |-> type_, name |-> name,
     notes |-> None, fields |-> None, data |-> String_new, favorite |-> favorite]

Folder_new(uuid, user_uuid, name) == [uuid |-> uuid, user_uuid |-> user_uuid, name |-> name]

Attachment_new(id, cipher_uuid, file_name, file_size) ==
    [id |-> id, cipher_uuid |-> cipher_uuid, file_name |-> file_name, file_size |-> file_size]

\* save(): insert the row, or replace the row of the same key.
save(table, key, row) == [k \in DOMAIN table \cup {key} |-> IF k = key THEN row ELSE table[k]]

\* delete(): remove the row of the key.
delete(table, key) == [k \in DOMAIN table \ {key} |-> table[k]]

\* find_by_uuid / find_by_id.
find(table, key) == IF key \in DOMAIN table THEN Some(table[key]) ELSE None

\* Mutant: every cipher, whoever owns it.
Cipher_find_all(user_uuid) == DOMAIN ciphers

Cipher_find_by_user(user_uuid) == {k \in DOMAIN ciphers : ciphers[k].user_uuid = user_uuid}

Folder_find_by_user(user_uuid) == {k \in DOMAIN folders : folders[k].user_uuid = user_uuid}

Attachment_find_by_cipher(table, cipher_uuid) ==
    {k \in DOMAIN table : table[k].cipher_uuid = cipher_uuid}

\* Attachment::get_file_path: attachments_folder/<cipher uuid>/<id>.
get_file_path(attachment) == <<attachment.cipher_uuid, attachment.id>>

\* Cipher::to_json: the projection of a cipher row with its attachments.
to_json(cipher, table) ==
    [cipher |-> cipher, attachments |-> Attachment_find_by_cipher(table, cipher.uuid)]

\* The record of a handled request (or of a file lost): the route, the authenticated user, the
\* cipher uuid of the path, the request body, the result ("ok", the message of
\* err!, or "panic"), the JSON returned, and what the handler created.
Handled(op, user, uuid, req, res, body, out) ==
    [op |-> op, user |-> user, uuid |-> uuid, req |-> req, res |-> res,
     body |-> body, out |-> out]

\* ------------------------------------------------------------------ merger

\* Mutant: a discriminant outside 1..4 selects the login payload.
type_data_of_default_login(data) ==
    CASE data.type_ = 2 -> [valid |-> TRUE, opt |-> data.secureNote]
      [] data.type_ = 3 -> [valid |-> TRUE, opt |-> data.card]
      [] data.type_ = 4 -> [valid |-> TRUE, opt |-> data.identity]
      [] OTHER -> [valid |-> TRUE, opt |-> data.login]

\* Mutant: when the selected payload is absent, another one that is present is
\* taken in its place.
type_data_of_any_present(data) ==
    LET slot == [d \in 1..4 |-> CASE d = 1 -> data.login [] d = 2 -> data.secureNote
                                  [] d = 3 -> data.card [] d = 4 -> data.identity]
        present == {d \in 1..4 : slot[d] # None}
    IN  IF data.type_ \notin 1..4 THEN [valid |-> FALSE, opt |-> None]
        ELSE IF slot[data.type_] = None /\ present # {}
        THEN [valid |-> TRUE, opt |-> slot[CHOOSE d \in present : TRUE]]
        ELSE [valid |-> TRUE, opt |-> slot[data.type_]]

\* The typed payload the discriminant selects; "invalid" outside 1..4.
type_data_of(data) ==
    CASE data.type_ = 1 -> [valid |-> TRUE, opt |-> data.login]
      [] data.type_ = 2 -> [valid |-> TRUE, opt |-> data.secureNote]
      [] data.type_ = 3 -> [valid |-> TRUE, opt |-> data.card]
      [] data.type_ = 4 -> [valid |-> TRUE, opt |-> data.identity]
      [] OTHER -> [valid |-> FALSE, opt |-> None]

\* One custom field with its names in the correct case; copy_values' flag is
\* dropped, so a field that is no object becomes {}.
field_value(f) == copy_values(f, JObject(<<>>)).to

\* Mutant: a folder that exists is accepted, whoever owns it.
folder_check_exists_only(folder_id, user, conn_folders) ==
    IF find(conn_folders, folder_id) = None THEN "Folder doesn't exist" ELSE "ok"

\* The check of a supplied folder id: it names a folder, and the folder is the
\* user's.
folder_check(folder_id, user, conn_folders) ==
    LET f == find(conn_folders, folder_id)
    IN  IF f = None THEN "Folder doesn't exist"
        ELSE IF f[1].user_uuid # user THEN "Folder is not owned by user"
        ELSE "ok"

\* update_cipher_from_data: the result and the in-memory cipher as the
\* function leaves it (on an error, mutated up to the failing statement).
update_cipher_from_data(cipher, data, user, conn_folders) ==
    LET folder_res ==
            IF data.folderId = None THEN "ok"
            ELSE folder_check(data.folderId[1], user, conn_folders)
        c1 == IF data.folderId # None
              THEN [cipher EXCEPT !.folder_uuid = data.folderId] ELSE cipher
        c2 == IF data.organizationId # None
              THEN [c1 EXCEPT !.organization_uuid = data.organizationId] ELSE c1
        values0 == (kName :> JString(data.name)) @@ (kNotes :> JOptString(data.notes))
        \* fields.as_array().unwrap()
        fields_panic == data.fields # None /\ as_array(data.fields[1]) = None
        values1 ==
            IF data.fields # None
            THEN IndexSet(values0, kFields,
                          JArray([i \in 1..Len(data.fields[1].v) |->
                                      field_value(data.fields[1].v[i])]))
            ELSE IndexSet(values0, kFields, JNull)
        c3 == IF data.notes # None THEN [c2 EXCEPT !.notes = data.notes] ELSE c2
        c4 == IF data.fields # None
              THEN [c3 EXCEPT !.fields = Some(to_string(data.fields[1]))] ELSE c3
        type_data_opt == type_data_of(data)
        copied == copy_values(type_data_opt.opt[1], JObject(values1))
    IN  IF folder_res # "ok" THEN [res |-> folder_res, cipher |-> cipher]
        ELSE IF fields_panic THEN [res |-> "panic", cipher |-> c2]
        ELSE IF ~type_data_opt.valid THEN [res |-> "Invalid type", cipher |-> c4]
        ELSE IF type_data_opt.opt = None THEN [res |-> "Data missing", cipher |-> c4]
        ELSE IF ~copied.ok THEN [res |-> "Data invalid", cipher |-> c4]
        ELSE [res |-> "ok", cipher |-> [c4 EXCEPT !.data = to_string(copied.to)]]

\* ------------------------------------------------------------------ cipher routes

\* Mutant: the ownership check always passes.
not_owned_never(cipher, user) == FALSE

\* cipher.user_uuid != headers.user.uuid, the check every route that names a
\* cipher makes after fetching it.
not_owned(cipher, user) == cipher.user_uuid # user

\* GET /sync: the user's folders and the JSON of the user's ciphers (the
\* profile and the domains come from other modules and are left out).
sync(user) ==
    /\ last' = Handled("sync", user, 0, None, "ok",
                       Some([folders |-> {folders[k] : k \in Folder_find_by_user(user)},
                             ciphers |-> {to_json(ciphers[k], attachments) :
                                             k \in Cipher_find_by_user(user)}]),
                       <<>>)
    /\ UNCHANGED <<ciphers, folders, attachments, blobs, next_cipher, next_folder, next_file, inflight>>

\* GET /ciphers
get_ciphers(user) ==
    /\ last' = Handled("get_ciphers", user, 0, None, "ok",
                       Some({to_json(ciphers[k], attachments) :
                                k \in Cipher_find_by_user(user)}),
                       <<>>)
    /\ UNCHANGED <<ciphers, folders, attachments, blobs, next_cipher, next_folder, next_file, inflight>>

\* GET /ciphers/<uuid>
get_cipher(user, uuid) ==
    LET found == find(ciphers, uuid)
        res == IF found = None THEN "Cipher doesn't exist"
               ELSE IF not_owned(found[1], user) THEN "Cipher is not owned by user"
               ELSE "ok"
    IN  /\ last' = Handled("get_cipher", user, uuid, None, res,
                           IF res = "ok" THEN Some(to_json(found[1], attachments)) ELSE None,
                           <<>>)
        /\ UNCHANGED <<ciphers, folders, attachments, blobs, next_cipher, next_folder, next_file, inflight>>

\* POST /ciphers
post_ciphers(user, data) ==
    LET cipher == Cipher_new(next_cipher, user, data.type_, data.name, data.favorite)
        merged == update_cipher_from_data(cipher, data, user, folders)
    IN  IF merged.res = "ok"
        THEN /\ ciphers' = save(ciphers, merged.cipher.uuid, merged.cipher)
             /\ next_cipher' = next_cipher + 1
             /\ last' = Handled("post_ciphers", user, 0, data, "ok",
                                Some(to_json(merged.cipher, attachments)),
                                <<merged.cipher.uuid>>)
             /\ UNCHANGED <<folders, attachments, blobs, next_folder, next_file, inflight>>
        ELSE /\ last' = Handled("post_ciphers", user, 0, data, merged.res, None, <<>>)
             /\ UNCHANGED <<ciphers, folders, attachments, blobs,
                            next_cipher, next_folder, next_file, inflight>>

\* PUT /ciphers/<uuid>, and POST /ciphers/<uuid> (post_cipher), which calls it.
put_cipher(user, uuid, data) ==
    LET found == find(ciphers, uuid)
        cipher == [found[1] EXCEPT !.favorite = data.favorite]
        merged == update_cipher_from_data(cipher, data, user, folders)
        res == IF found = None THEN "Cipher doesn't exist"
               ELSE IF not_owned(found[1], user) THEN "Cipher is not owned by user"
               ELSE merged.res
    IN  IF res = "ok"
        THEN /\ ciphers' = save(ciphers, merged.cipher.uuid, merged.cipher)
             /\ last' = Handled("put_cipher", user, uuid, data, "ok",
                                Some(to_json(merged.cipher, attachments)), <<>>)
             /\ UNCHANGED <<folders, attachments, blobs, next_cipher, next_folder, next_file, inflight>>
        ELSE /\ last' = Handled("put_cipher", user, uuid, data, res, None, <<>>)
             /\ UNCHANGED <<ciphers, folders, attachments, blobs,
                            next_cipher, next_folder, next_file, inflight>>

\* ------------------------------------------------------------------ import

\* Mutant: the map is keyed by the folder index and gives the cipher index.
RECURSIVE relations_map_of_swapped(_, _)
relations_map_of_swapped(relations, map) ==
    IF relations = <<>> THEN map
    ELSE relations_map_of_swapped(Tail(relations),
                                  IndexSet(map, Head(relations).value, Head(relations).key))

\* relations_map.insert(key, value) for every relation, in order: the last
\* relation of a key wins.
RECURSIVE relations_map_of(_, _)
relations_map_of(relations, map) ==
    IF relations = <<>> THEN map
    ELSE relations_map_of(Tail(relations),
                          IndexSet(map, Head(relations).key, Head(relations).value))

\* Mutant: a cipher whose merge fails is skipped and the loop goes on.
RECURSIVE import_loop_skip_failed(_, _, _, _, _, _)
import_loop_skip_failed(user, cipher_datas, index, relations_map, made_folders, acc) ==
    IF index >= Len(cipher_datas) THEN acc
    ELSE LET cipher_data == cipher_datas[index + 1]
             mapped == index \in DOMAIN relations_map
             out_of_bounds == mapped /\ relations_map[index] >= Len(made_folders)
             folder_uuid == IF mapped THEN Some(made_folders[relations_map[index] + 1])
                            ELSE None
             cipher == Cipher_new(acc.next_cipher, user, cipher_data.type_,
                                  cipher_data.name, cipher_data.favorite)
             merged == update_cipher_from_data(cipher, cipher_data, user, acc.folders)
             saved == [merged.cipher EXCEPT !.folder_uuid = folder_uuid]
         IN  IF out_of_bounds \/ merged.res = "panic" THEN [acc EXCEPT !.res = "panic"]
             ELSE IF merged.res # "ok"
             THEN import_loop_skip_failed(user, cipher_datas, index + 1, relations_map,
                                          made_folders, acc)
             ELSE import_loop_skip_failed(user, cipher_datas, index + 1, relations_map,
                      made_folders,
                      [acc EXCEPT !.ciphers = save(acc.ciphers, saved.uuid, saved),
                                  !.next_cipher = acc.next_cipher + 1,
                                  !.saved = Append(acc.saved, saved.uuid)])

\* Mutant: a cipher without a relationship keeps the folder of its request.
RECURSIVE import_loop_keep_request_folder(_, _, _, _, _, _)
import_loop_keep_request_folder(user, cipher_datas, index, relations_map, made_folders, acc) ==
    IF index >= Len(cipher_datas) THEN acc
    ELSE LET cipher_data == cipher_datas[index + 1]
             mapped == index \in DOMAIN relations_map
             out_of_bounds == mapped /\ relations_map[index] >= Len(made_folders)
             cipher == Cipher_new(acc.next_cipher, user, cipher_data.type_,
                                  cipher_data.name, cipher_data.favorite)
             merged == update_cipher_from_data(cipher, cipher_data, user, acc.folders)
             saved == IF mapped
                      THEN [merged.cipher EXCEPT
                               !.folder_uuid = Some(made_folders[relations_map[index] + 1])]
                      ELSE merged.cipher
         IN  IF out_of_bounds \/ merged.res = "panic" THEN [acc EXCEPT !.res = "panic"]
             ELSE IF merged.res # "ok" THEN [acc EXCEPT !.res = "Error creating cipher"]
             ELSE import_loop_keep_request_folder(user, cipher_datas, index + 1,
                      relations_map, made_folders,
                      [acc EXCEPT !.ciphers = save(acc.ciphers, saved.uuid, saved),
                                  !.next_cipher = acc.next_cipher + 1,
                                  !.saved = Append(acc.saved, saved.uuid)])

\* The loop over data.ciphers from position `index` (0-based) on.  made_folders
\* is the Vec of the folders created; acc carries the cipher table, the uuid
\* generator, the uuids saved so far and the result.
RECURSIVE import_loop(_, _, _, _, _, _)
import_loop(user, cipher_datas, index, relations_map, made_folders, acc) ==
    IF index >= Len(cipher_datas) THEN acc
    ELSE LET cipher_data == cipher_datas[index + 1]
             mapped == index \in DOMAIN relations_map
             \* folders[*i as usize]: an index past the Vec panics
             out_of_bounds == mapped /\ relations_map[index] >= Len(made_folders)
             folder_uuid == IF mapped THEN Some(made_folders[relations_map[index] + 1])
                            ELSE None
             cipher == Cipher_new(acc.next_cipher, user, cipher_data.type_,
                                  cipher_data.name, cipher_data.favorite)
             merged == update_cipher_from_data(cipher, cipher_data, user, acc.folders)
             saved == [merged.cipher EXCEPT !.folder_uuid = folder_uuid]
         IN  IF out_of_bounds THEN [acc EXCEPT !.res = "panic"]
             ELSE IF merged.res = "panic" THEN [acc EXCEPT !.res = "panic"]
             ELSE IF merged.res # "ok" THEN [acc EXCEPT !.res = "Error creating cipher"]
             ELSE import_loop(user, cipher_datas, index + 1, relations_map, made_folders,
                              [acc EXCEPT !.ciphers = save(acc.ciphers, saved.uuid, saved),
                                          !.next_cipher = acc.next_cipher + 1,
                                          !.saved = Append(acc.saved, saved.uuid)])

\* POST /ciphers/import
post_ciphers_import(user, data) ==
    LET n == Len(data.folders)
        made_folders == [i \in 1..n |-> next_folder + i - 1]
        folders1 == [k \in DOMAIN folders \cup {made_folders[i] : i \in 1..n} |->
                        IF k \in DOMAIN folders THEN folders[k]
                        ELSE Folder_new(k, user, data.folders[k - next_folder + 1].name)]
        relations_map == relations_map_of(data.folderRelationships, <<>>)
        done == import_loop(user, data.ciphers, 0, relations_map, made_folders,
                            [ciphers |-> ciphers, folders |-> folders1,
                             next_cipher |-> next_cipher, saved |-> <<>>, res |-> "ok"])
    IN  /\ folders' = folders1
        /\ next_folder' = next_folder + n
        /\ ciphers' = done.ciphers
        /\ next_cipher' = done.next_cipher
        /\ last' = Handled("post_ciphers_import", user, 0, data, done.res, None,
                           [folders |-> made_folders, ciphers |-> done.saved])
        /\ UNCHANGED <<attachments, blobs, next_file, inflight>>

\* ------------------------------------------------------------------ attachments

\* Attachment::delete: the file (one already missing is no error) and the row.
Attachment_delete(store, id) ==
    [rows |-> delete(store.rows, id),
     files |-> store.files \ {get_file_path(store.rows[id])}]

\* Mutant: only one attachment of the cipher is deleted.
delete_attachments_of_first(store, cipher_uuid) ==
    LET ids == Attachment_find_by_cipher(store.rows, cipher_uuid)
    IN  IF ids = {} THEN store
        ELSE Attachment_delete(store, CHOOSE id \in ids : TRUE)

\* a.delete(conn) for every attachment of the cipher.
RECURSIVE delete_attachments_of(_, _)
delete_attachments_of(store, cipher_uuid) ==
    LET ids == Attachment_find_by_cipher(store.rows, cipher_uuid)
    IN  IF ids = {} THEN store
        ELSE delete_attachments_of(Attachment_delete(store, CHOOSE id \in ids : TRUE),
                                   cipher_uuid)

\* Mutant: a part that fails to save ends the loop.
RECURSIVE foreach_entry_stop_on_failure(_, _, _, _)
foreach_entry_stop_on_failure(cipher_uuid, parts, i, acc) ==
    IF i > Len(parts) THEN acc
    ELSE LET field == parts[i]
             file_name == acc.next_file
             attachment == Attachment_new(file_name, cipher_uuid, field.filename[1], field.size)
         IN  IF field.filename = None THEN [acc EXCEPT !.res = "panic"]
             ELSE IF field.save = "Full"
             THEN foreach_entry_stop_on_failure(cipher_uuid, parts, i + 1,
                      [acc EXCEPT !.rows = save(acc.rows, attachment.id, attachment),
                                  !.files = acc.files \cup {<<cipher_uuid, file_name>>},
                                  !.next_file = acc.next_file + 1,
                                  !.made = Append(acc.made, attachment.id)])
             ELSE [acc EXCEPT !.next_file = acc.next_file + 1]

\* The closure of foreach_entry run on the parts from position i on.  A part is
\* its filename header (an Option), what field.data.save() gives ("Full",
\* "Partial": a truncated file is left, "Error": no file) and the bytes written.
RECURSIVE foreach_entry(_, _, _, _)
foreach_entry(cipher_uuid, parts, i, acc) ==
    IF i > Len(parts) THEN acc
    ELSE LET field == parts[i]
             file_name == acc.next_file
             path == <<cipher_uuid, file_name>>
             attachment == Attachment_new(file_name, cipher_uuid, field.filename[1], field.size)
         IN  IF field.filename = None            \* filename.unwrap()
             THEN [acc EXCEPT !.res = "panic"]
             ELSE IF field.save = "Full"
             THEN foreach_entry(cipher_uuid, parts, i + 1,
                      [acc EXCEPT !.rows = save(acc.rows, attachment.id, attachment),
                                  !.files = acc.files \cup {path},
                                  !.next_file = acc.next_file + 1,
                                  !.made = Append(acc.made, attachment.id)])
             ELSE foreach_entry(cipher_uuid, parts, i + 1,
                      [acc EXCEPT !.files = IF field.save = "Partial"
                                            THEN acc.files \cup {path} ELSE acc.files,
                                  !.next_file = acc.next_file + 1])

\* POST /ciphers/<uuid>/attachment.  The request: whether the content type
\* carries a boundary, the parts the body yields, and how the body ends
\* ("eof", or "error": the multipart stream cannot be read further).
post_attachment(user, uuid, data) ==
    LET found == find(ciphers, uuid)
        res0 == IF found = None THEN "Cipher doesn't exist"
                ELSE IF not_owned(found[1], user) THEN "Cipher is not owned by user"
                ELSE IF ~data.boundary THEN "panic"    \* expect("No boundary provided")
                ELSE "ok"
        done == foreach_entry(uuid, data.parts, 1,
                              [rows |-> attachments, files |-> blobs,
                               next_file |-> next_file, made |-> <<>>, res |-> "ok"])
        \* expect("Error processing multipart data")
        res == IF done.res = "ok" /\ data.end = "error" THEN "panic" ELSE done.res
    IN  IF res0 # "ok"
        THEN /\ last' = Handled("post_attachment", user, uuid, data, res0, None, <<>>)
             /\ UNCHANGED <<ciphers, folders, attachments, blobs,
                            next_cipher, next_folder, next_file, inflight>>
        ELSE /\ attachments' = done.rows
             /\ blobs' = done.files
             /\ next_file' = done.next_file
             /\ last' = Handled("post_attachment", user, uuid, data, res,
                                IF res = "ok" THEN Some(to_json(found[1], done.rows)) ELSE None,
                                done.made)
             /\ UNCHANGED <<ciphers, folders, next_cipher, next_folder, inflight>>

\* DELETE /ciphers/<uuid>/attachment/<attachment_id>, and the POST .../delete
\* route (delete_attachment_post), which calls it.
delete_attachment(user, uuid, attachment_id) ==
    LET attachment == find(attachments, attachment_id)
        cipher == find(ciphers, uuid)
        res == IF attachment = None THEN "Attachment doesn't exist"
               ELSE IF attachment[1].cipher_uuid # uuid THEN "Attachment from other cipher"
               ELSE IF cipher = None THEN "Cipher doesn't exist"
               ELSE IF not_owned(cipher[1], user) THEN "Cipher is not owned by user"
               ELSE "ok"
        done == Attachment_delete([rows |-> attachments, files |-> blobs], attachment_id)
    IN  IF res = "ok"
        THEN /\ attachments' = done.rows
             /\ blobs' = done.files
             /\ last' = Handled("delete_attachment", user, uuid, attachment_id, "ok", None,
                                {attachment_id})
             /\ UNCHANGED <<ciphers, folders, next_cipher, next_folder, next_file, inflight>>
        ELSE /\ last' = Handled("delete_attachment", user, uuid, attachment_id, res, None, {})
             /\ UNCHANGED <<ciphers, folders, attachments, blobs,
                            next_cipher, next_folder, next_file, inflight>>

\* ------------------------------------------------------------------ deletion

\* DELETE /ciphers/<uuid>, and POST /ciphers/<uuid>/delete (delete_cipher_post),
\* which calls it.
delete_cipher(user, uuid) ==
    LET found == find(ciphers, uuid)
        res == IF found = None THEN "Cipher doesn't exist"
               ELSE IF not_owned(found[1], user) THEN "Cipher is not owned by user"
               ELSE "ok"
        done == delete_attachments_of([rows |-> attachments, files |-> blobs], uuid)
    IN  IF res = "ok"
        THEN /\ attachments' = done.rows
             /\ blobs' = done.files
             /\ ciphers' = delete(ciphers, uuid)
             /\ last' = Handled("delete_cipher", user, uuid, None, "ok", None,
                                Attachment_find_by_cipher(attachments, uuid))
             /\ UNCHANGED <<folders, next_cipher, next_folder, next_file, inflight>>
        ELSE /\ last' = Handled("delete_cipher", user, uuid, None, res, None, {})
             /\ UNCHANGED <<ciphers, folders, attachments, blobs,
                            next_cipher, next_folder, next_file, inflight>>

\* POST /ciphers/delete: unimplemented!()
delete_cipher_selected(user) ==
    /\ last' = Handled("delete_cipher_selected", user, 0, None, "panic", None, <<>>)
    /\ UNCHANGED <<ciphers, folders, attachments, blobs, next_cipher, next_folder, next_file, inflight>>

\* Mutant: the cipher rows are deleted and their attachments are left.
purge_ciphers_rows_only(uuids, table, store) ==
    [ciphers |-> [k \in DOMAIN table \ uuids |-> table[k]], store |-> store]

\* The loop of delete_all over the user's ciphers.
RECURSIVE purge_ciphers(_, _, _)
purge_ciphers(uuids, table, store) ==
    IF uuids = {} THEN [ciphers |-> table, store |-> store]
    ELSE LET uuid == CHOOSE c \in uuids : TRUE
         IN purge_ciphers(uuids \ {uuid}, delete(table, uuid),
                          delete_attachments_of(store, uuid))

\* POST /ciphers/purge
delete_all(user, masterPasswordHash) ==
    LET done == purge_ciphers(Cipher_find_by_user(user), ciphers,
                              [rows |-> attachments, files |-> blobs])
        folder_uuids == Folder_find_by_user(user)
    IN  IF ~check_valid_password(user, masterPasswordHash)
        THEN /\ last' = Handled("delete_all", user, 0, masterPasswordHash,
                                "Invalid password", None, {})
             /\ UNCHANGED <<ciphers, folders, attachments, blobs,
                            next_cipher, next_folder, next_file, inflight>>
        ELSE /\ ciphers' = done.ciphers
             /\ attachments' = done.store.rows
             /\ blobs' = done.store.files
             /\ folders' = [k \in DOMAIN folders \ folder_uuids |-> folders[k]]
             /\ last' = Handled("delete_all", user, 0, masterPasswordHash, "ok", None,
                                [ciphers |-> Cipher_find_by_user(user),
                                 attachments |-> DOMAIN attachments \ DOMAIN done.store.rows,
                                 folders |-> folder_uuids])
             /\ UNCHANGED <<next_cipher, next_folder, next_file, inflight>>

\* The blob store is outside this program: a file can disappear from it while
\* its row stays.
blob_removed(path) ==
    /\ path \in blobs
    /\ blobs' = blobs \ {path}
    /\ last' = Handled("blob_removed", "nobody", 0, path, "ok", None, <<>>)
    /\ UNCHANGED <<ciphers, folders, attachments, next_cipher, next_folder, next_file, inflight>>

\* ------------------------------------------------------------------ requests

\* A CipherData; slots gives the four typed payloads login, secureNote, card
\* and identity (each an Option<Value>) by discriminant.
CipherData(folderId, organizationId, type_, notes, fields, slots, favorite) ==
    [folderId |-> folderId, organizationId |-> organizationId, type_ |-> type_,
     name |-> "name", notes |-> notes, fields |-> fields,
     login |-> slots[1], secureNote |-> slots[2], card |-> slots[3],
     identity |-> slots[4], favorite |-> favorite]

\* The object a client sends as the typed payload of discriminant d.
TypedObject(d) ==
    CASE d = 1 -> JObject(kUri :> JString("x"))
      [] d = 2 -> JObject(kType :> JString("x"))
      [] d = 3 -> JObject(kCode :> JString("x"))
      [] d = 4 -> JObject(kSsn :> JString("x"))

NoSlots == [d \in 1..4 |-> None]
OnlySlot(d) == [NoSlots EXCEPT ![d] = Some(TypedObject(d))]

FieldsList == JArray(<<JObject(kValue :> JString("v")), JString("v")>>)

\* The requests of the whole-system specification: a well-formed login, as a
\* favorite or not.
CoreData == {CipherData(None, None, 1, None, None, OnlySlot(1), f) : f \in BOOLEAN}

ImportData(cipher_datas, folder_datas, relations) ==
    [ciphers |-> cipher_datas, folders |-> folder_datas, folderRelationships |-> relations]

FolderData == [name |-> "folder"]
Relation(key, value) == [key |-> key, value |-> value]

\* The imports of the whole-system specification: one folder.
CoreImports == {ImportData(<<>>, <<FolderData>>, <<>>)}

\* The parts of a multipart body.
Parts ==
    {[filename |-> Some("file"), save |-> r, size |-> 1] : r \in {"Full", "Partial", "Error"}}
    \cup {[filename |-> None, save |-> "Full", size |-> 1]}

SeqsUpTo(S, n) == UNION {[1..k -> S] : k \in 0..n}

Uploads ==
    {[boundary |-> TRUE, parts |-> ps, end |-> e] :
        ps \in SeqsUpTo(Parts, MaxParts), e \in {"eof", "error"}}
    \cup {[boundary |-> FALSE, parts |-> <<>>, end |-> "eof"]}

\* The uploads of the whole-system specification: one part, saved in full.
CoreUploads ==
    {[boundary |-> TRUE, end |-> "eof",
      parts |-> <<[filename |-> Some("file"), save |-> "Full", size |-> 1]>>]}

Hashes == {password_hash[u] : u \in Users}

\* ------------------------------------------------------------------ specification

Init ==
    /\ ciphers = <<>>
    /\ folders = <<>>
    /\ attachments = <<>>
    /\ blobs = {}
    /\ next_cipher = 1
    /\ next_folder = 1
    /\ next_file = 1
    /\ last = Handled("none", "u1", 0, None, "ok", None, <<>>)
    /\ inflight = <<>>

Next ==
    \/ \E user \in Users : sync(user)
    \/ \E user \in Users : get_ciphers(user)
    \/ \E user \in Users, uuid \in 1..MaxCiphers : get_cipher(user, uuid)
    \/ \E user \in Users, data \in CoreData :
        /\ next_cipher <= MaxCiphers
        /\ post_ciphers(user, data)
    \/ \E user \in Users, uuid \in 1..MaxCiphers, data \in CoreData :
        put_cipher(user, uuid, data)
    \/ \E user \in Users, data \in CoreImports :
        /\ next_cipher + Len(data.ciphers) <= MaxCiphers + 1
        /\ next_folder + Len(data.folders) <= MaxFolders + 1
        /\ post_ciphers_import(user, data)
    \/ \E user \in Users, uuid \in 1..MaxCiphers, data \in CoreUploads :
        /\ next_file + Len(data.parts) <= MaxFiles + 1
        /\ post_attachment(user, uuid, data)
    \/ \E user \in Users, uuid \in 1..MaxCiphers, id \in 1..MaxFiles :
        delete_attachment(user, uuid, id)
    \/ \E user \in Users, uuid \in 1..MaxCiphers : delete_cipher(user, uuid)
    \/ \E user \in Users : delete_cipher_selected(user)
    \/ \E user \in Users, hash \in Hashes : delete_all(user, hash)
    \/ \E path \in blobs : blob_removed(path)

Spec == Init /\ [][Next]_vars

\* ------------------------------------------------------------------ the merger

\* Typed payloads by discriminant: the matching object alone, none at all, only
\* another type's object, the matching one not an object, and every slot filled.
OtherSlot(d) == OnlySlot((d % 4) + 1)
BadSlot(d) == [NoSlots EXCEPT ![d] = Some(JString("x"))]
AllSlots == [d \in 1..4 |-> Some(TypedObject(d))]

\* A login payload with a key of its own that collides with the envelope's Name.
CollidingObject == JObject((kname :> JString("y")) @@ (kUri :> JString("x")))
CollidingSlot == [NoSlots EXCEPT ![1] = Some(CollidingObject)]

MergeData ==
    UNION {{CipherData(None, None, d, None, None, slots, FALSE) :
                slots \in {OnlySlot(d), NoSlots, OtherSlot(d), BadSlot(d), AllSlots}} :
            d \in 1..4}
    \cup {CipherData(None, None, d, None, None, slots, FALSE) :
            d \in {0, 5}, slots \in {OnlySlot(1), AllSlots}}
    \cup {CipherData(None, None, 1, None, None, CollidingSlot, FALSE)}
    \cup {CipherData(Some(f), None, d, None, None, slots, FALSE) :
            f \in 1..MergeFolders, d \in {1, 5}, slots \in {OnlySlot(1), NoSlots}}
    \cup {CipherData(None, None, d, None, Some(JString("x")), OnlySlot(1), FALSE) :
            d \in {1, 5}}

NextMerge ==
    \/ \E user \in Users, data \in CoreImports :
        /\ next_folder + Len(data.folders) <= MergeFolders + 1
        /\ post_ciphers_import(user, data)
    \/ \E user \in Users, data \in MergeData :
        /\ next_cipher <= MergeCiphers
        /\ post_ciphers(user, data)
    \/ \E user \in Users, uuid \in 1..MergeCiphers, data \in MergeData :
        put_cipher(user, uuid, data)

SpecMerge == Init /\ [][NextMerge]_vars

\* ------------------------------------------------------------------ replace

ReplaceData ==
    {CipherData(folderId, organizationId, 1, notes, fields, OnlySlot(1), favorite) :
        folderId \in {None, Some(1)}, organizationId \in {None, Some("org")},
        notes \in {None, Some("notes")}, fields \in {None, Some(FieldsList)},
        favorite \in BOOLEAN}

NextReplace ==
    \/ \E user \in Users, data \in CoreImports :
        /\ next_folder + Len(data.folders) <= MaxFolders + 1
        /\ post_ciphers_import(user, data)
    \/ \E user \in Users, data \in ReplaceData :
        /\ next_cipher <= ReplaceCiphers
        /\ post_ciphers(user, data)
    \/ \E user \in Users, uuid \in 1..ReplaceCiphers, data \in ReplaceData :
        put_cipher(user, uuid, data)

SpecReplace == Init /\ [][NextReplace]_vars

\* ------------------------------------------------------------------ upload

NextUpload ==
    \/ \E user \in Users, data \in CoreData :
        /\ next_cipher <= MaxCiphers
        /\ post_ciphers(user, data)
    \/ \E user \in Users, uuid \in 1..MaxCiphers, data \in Uploads :
        /\ next_file + Len(data.parts) <= UploadFiles + 1
        /\ post_attachment(user, uuid, data)

SpecUpload == Init /\ [][NextUpload]_vars

\* ------------------------------------------------------------------ import

ImportCiphers ==
    {CipherData(None, None, 1, None, None, OnlySlot(1), FALSE),
     CipherData(None, None, 5, None, None, OnlySlot(1), FALSE),
     CipherData(Some(1), None, 1, None, None, OnlySlot(1), FALSE)}

Relations ==
    {Relation(key, value) : key \in 0..(MaxImportCiphers - 1), value \in 0..MaxImportFolders}

\* Every list of k relations, k up to MaxRelations.
RelationLists == SeqsUpTo(Relations, MaxRelations)

\* The import specification applies one import request to a vault that has
\* handled none yet and holds no folder or one folder of either user.
InitImport ==
    /\ ciphers = <<>>
    /\ \E n \in 0..1, owner \in Users :
        /\ folders = [k \in 1..n |-> Folder_new(k, owner, "folder")]
        /\ next_folder = n + 1
    /\ attachments = <<>>
    /\ blobs = {}
    /\ next_cipher = 1
    /\ next_file = 1
    /\ last = Handled("none", "u1", 0, None, "ok", None, <<>>)
    /\ inflight = <<>>

NextImport ==
    /\ last.op = "none"
    /\ \E user \in Users, m \in 0..MaxImportCiphers, n \in 0..MaxImportFolders :
        \E cs \in [1..m -> ImportCiphers], fs \in [1..n -> {FolderData}],
           rs \in RelationLists :
            post_ciphers_import(user, ImportData(cs, fs, rs))

SpecImport == InitImport /\ [][NextImport]_vars

\* ------------------------------------------------------------------ the normalizer

\* One call of copy_values, on its own: the inputs and the flag and target it
\* gives.
copy_values_call(from, to) ==
    LET done == copy_values(from, to)
    IN  /\ last' = Handled("copy_values", "nobody", 0, [from |-> from, to |-> to],
                           IF done.ok THEN "true" ELSE "false", Some(done.to), <<>>)
        /\ UNCHANGED <<ciphers, folders, attachments, blobs,
                       next_cipher, next_folder, next_file, inflight>>

\* The keys and values of the objects normalized, with a nested object among
\* the values and the empty key among the keys.
CopyKeys == {kusername, kpassword, kname, kName, <<>>}
CopyValues == {JString("a"), JString("b"), JObject(kname :> JString("a"))}
CopyObjects == UNION {{JObject(f) : f \in [K -> CopyValues]} : K \in SUBSET CopyKeys}
CopySources ==
    CopyObjects \cup {JNull, JString("a"), JArray(<<JObject(kname :> JString("a"))>>)}
CopyTargets == {JObject(<<>>), JObject((kName :> JString("n")) @@ (kNotes :> JNull))}

\* The normalizer specification makes one call.
NextCopy ==
    /\ last.op = "none"
    /\ \E from \in CopySources, to \in CopyTargets : copy_values_call(from, to)

SpecCopy == Init /\ [][NextCopy]_vars

\* ------------------------------------------------------------------ concurrent replace

Connections == 1..MaxInflight

\* inflight with the record of connection r set.
Under(r, rec) == [k \in DOMAIN inflight \cup {r} |-> IF k = r THEN rec ELSE inflight[k]]

\* Mutant: the row saved is built from the row as the database has it now.
put_base_reread(found, current) == IF current = None THEN found ELSE current[1]

\* The cipher a replace mutates and saves: the copy its find_by_uuid returned.
put_base(found, current) == found

\* put_cipher up to its ownership check: the row is fetched.  A request that
\* fails here is answered at once.
put_begin(r, user, uuid, data) ==
    LET found == find(ciphers, uuid)
        res == IF found = None THEN "Cipher doesn't exist"
               ELSE IF not_owned(found[1], user) THEN "Cipher is not owned by user"
               ELSE "ok"
    IN  /\ r \notin DOMAIN inflight
        /\ inflight' = Under(r, [op |-> "put_cipher", user |-> user, uuid |-> uuid,
                                 data |-> data, res |-> res,
                                 pc |-> IF res = "ok" THEN "merge" ELSE "done",
                                 found |-> found, cipher |-> found])
        /\ last' = IF res = "ok" THEN last
                   ELSE Handled("put_cipher", user, uuid, data, res, None, <<r>>)
        /\ UNCHANGED <<ciphers, folders, attachments, blobs,
                       next_cipher, next_folder, next_file>>

\* cipher.favorite = data.favorite and update_cipher_from_data, on the copy in
\* memory; the merger reads the folder table.
put_merge(r) ==
    /\ r \in DOMAIN inflight
    /\ inflight[r].op = "put_cipher"
    /\ inflight[r].pc = "merge"
    /\ LET req == inflight[r]
           base == put_base(req.found[1], find(ciphers, req.uuid))
           cipher == [base EXCEPT !.favorite = req.data.favorite]
           merged == update_cipher_from_data(cipher, req.data, req.user, folders)
       IN  /\ inflight' = Under(r, [req EXCEPT !.res = merged.res,
                                               !.pc = IF merged.res = "ok" THEN "save"
                                                      ELSE "done",
                                               !.cipher = Some(merged.cipher)])
           /\ last' = IF merged.res = "ok" THEN last
                      ELSE Handled("put_cipher", req.user, req.uuid, req.data,
                                   merged.res, None, <<r>>)
    /\ UNCHANGED <<ciphers, folders, attachments, blobs,
                   next_cipher, next_folder, next_file>>

\* cipher.save and the response.
put_save(r) ==
    /\ r \in DOMAIN inflight
    /\ inflight[r].op = "put_cipher"
    /\ inflight[r].pc = "save"
    /\ LET req == inflight[r]
           cipher == req.cipher[1]
       IN  /\ ciphers' = save(ciphers, cipher.uuid, cipher)
           /\ inflight' = Under(r, [req EXCEPT !.pc = "done"])
           /\ last' = Handled("put_cipher", req.user, req.uuid, req.data, "ok",
                              Some(to_json(cipher, attachments)), <<r>>)
    /\ UNCHANGED <<folders, attachments, blobs, next_cipher, next_folder, next_file>>

\* The replace requests that race: with or without notes, an organization and
\* a folder.
RaceData ==
    {CipherData(folderId, organizationId, 1, notes, None, OnlySlot(1), FALSE) :
        folderId \in {None, Some(1)}, organizationId \in {None, Some("org")},
        notes \in {None, Some("notes")}}

NextRace ==
    \/ \E user \in Users, data \in CoreImports :
        /\ next_folder + Len(data.folders) <= MaxFolders + 1
        /\ inflight = <<>>
        /\ post_ciphers_import(user, data)
    \/ \E user \in Users, data \in CoreData :
        /\ next_cipher <= RaceCiphers
        /\ inflight = <<>>
        /\ post_ciphers(user, data)
    \/ \E r \in Connections, user \in Users, uuid \in 1..RaceCiphers, data \in RaceData :
        put_begin(r, user, uuid, data)
    \/ \E r \in Connections : put_merge(r)
    \/ \E r \in Connections : put_save(r)

SpecRace == Init /\ [][NextRace]_vars

\* ------------------------------------------------------------------ concurrent upload

\* Mutant: every outcome of the save counts as a file saved.
saved_any(result) == TRUE

\* SaveResult::Full(SavedData::File(_, size)): the one outcome of
\* field.data.save() after which the closure goes on to the row.
saved_in_full(result) == result = "Full"

\* post_attachment up to the multipart loop: the cipher is fetched and checked,
\* the boundary is taken.  A request that fails here is answered at once.
att_begin(r, user, uuid, data) ==
    LET found == find(ciphers, uuid)
        res == IF found = None THEN "Cipher doesn't exist"
               ELSE IF not_owned(found[1], user) THEN "Cipher is not owned by user"
               ELSE IF ~data.boundary THEN "panic"
               ELSE "ok"
    IN  /\ r \notin DOMAIN inflight
        /\ inflight' = Under(r, [op |-> "post_attachment", user |-> user, uuid |-> uuid,
                                 data |-> data, res |-> res,
                                 pc |-> IF res = "ok" THEN "part" ELSE "done",
                                 cipher |-> found, i |-> 1, file_name |-> 0,
                                 made |-> <<>>])
        /\ last' = IF res = "ok" THEN last
                   ELSE Handled("post_attachment", user, uuid, data, res, None, <<>>)
        /\ UNCHANGED <<ciphers, folders, attachments, blobs,
                       next_cipher, next_folder, next_file>>

\* The closure on the next part, up to the outcome of field.data.save(); after
\* the last part, the end of the body and the response.
att_part(r) ==
    /\ r \in DOMAIN inflight
    /\ inflight[r].op = "post_attachment"
    /\ inflight[r].pc = "part"
    /\ LET req == inflight[r]
           parts == req.data.parts
           field == parts[req.i]
           path == <<req.uuid, next_file>>
           res == IF req.data.end = "error" THEN "panic" ELSE "ok"
       IN  IF req.i > Len(parts)
           THEN /\ inflight' = Under(r, [req EXCEPT !.pc = "done", !.res = res])
                /\ last' = Handled("post_attachment", req.user, req.uuid, req.data, res,
                                   IF res = "ok"
                                   THEN Some(to_json(req.cipher[1], attachments)) ELSE None,
                                   req.made)
                /\ UNCHANGED <<blobs, next_file>>
           ELSE IF field.filename = None
           THEN /\ inflight' = Under(r, [req EXCEPT !.pc = "done", !.res = "panic"])
                /\ last' = Handled("post_attachment", req.user, req.uuid, req.data,
                                   "panic", None, req.made)
                /\ UNCHANGED <<blobs, next_file>>
           ELSE /\ next_file' = next_file + 1
                /\ blobs' = IF field.save = "Error" THEN blobs ELSE blobs \cup {path}
                /\ inflight' = Under(r, IF saved_in_full(field.save)
                                        THEN [req EXCEPT !.pc = "row",
                                                         !.file_name = next_file]
                                        ELSE [req EXCEPT !.i = req.i + 1])
                /\ last' = last
    /\ UNCHANGED <<ciphers, folders, attachments, next_cipher, next_folder>>

\* Attachment::new and attachment.save for the part just saved.
att_row(r) ==
    /\ r \in DOMAIN inflight
    /\ inflight[r].op = "post_attachment"
    /\ inflight[r].pc = "row"
    /\ LET req == inflight[r]
           field == req.data.parts[req.i]
           attachment == Attachment_new(req.file_name, req.cipher[1].uuid,
                                        field.filename[1], field.size)
       IN  /\ attachments' = save(attachments, attachment.id, attachment)
           /\ inflight' = Under(r, [req EXCEPT !.pc = "part", !.i = req.i + 1,
                                               !.made = Append(req.made, attachment.id)])
    /\ UNCHANGED <<ciphers, folders, blobs, next_cipher, next_folder, next_file, last>>

\* The request is aborted between two of its steps: the client goes away or
\* the worker dies.  Nothing more is written.
att_abort(r) ==
    /\ r \in DOMAIN inflight
    /\ inflight[r].op = "post_attachment"
    /\ inflight[r].pc \in {"part", "row"}
    /\ inflight' = Under(r, [inflight[r] EXCEPT !.pc = "done", !.res = "aborted"])
    /\ last' = Handled("post_attachment", inflight[r].user, inflight[r].uuid,
                       inflight[r].data, "aborted", None, inflight[r].made)
    /\ UNCHANGED <<ciphers, folders, attachments, blobs,
                   next_cipher, next_folder, next_file>>

\* The parts of the bodies under way.
RECURSIVE PartsUnderWay(_)
PartsUnderWay(rs) ==
    IF rs = {} THEN 0
    ELSE LET r == CHOOSE x \in rs : TRUE
         IN Len(inflight[r].data.parts) + PartsUnderWay(rs \ {r})

\* The bodies uploaded in steps: up to StepParts parts that have a filename,
\* a body that cannot be read to its end, a part without filename, and a
\* request without boundary.
StepUploads ==
    {[boundary |-> TRUE, parts |-> ps, end |-> "eof"] :
        ps \in SeqsUpTo({[filename |-> Some("file"), save |-> o, size |-> 1] :
                            o \in {"Full", "Partial", "Error"}}, StepParts)}
    \cup {[boundary |-> TRUE, end |-> "error",
           parts |-> <<[filename |-> Some("file"), save |-> "Full", size |-> 1]>>],
          [boundary |-> TRUE, end |-> "eof",
           parts |-> <<[filename |-> None, save |-> "Full", size |-> 1]>>],
          [boundary |-> FALSE, parts |-> <<>>, end |-> "eof"]}

NextUploadSteps ==
    \/ \E user \in Users, data \in CoreData :
        /\ next_cipher <= StepCiphers
        /\ post_ciphers(user, data)
    \/ \E r \in Connections, user \in Users, uuid \in 1..StepCiphers, data \in StepUploads :
        /\ Len(data.parts) + PartsUnderWay(DOMAIN inflight) <= StepParts
        /\ att_begin(r, user, uuid, data)
    \/ \E r \in Connections : att_part(r)
    \/ \E r \in Connections : att_row(r)
    \/ \E r \in Connections : att_abort(r)
    \/ \E user \in Users, uuid \in 1..StepCiphers : delete_cipher(user, uuid)
    \/ \E user \in Users, hash \in Hashes : delete_all(user, hash)

SpecUploadSteps == Init /\ [][NextUploadSteps]_vars

\* ------------------------------------------------------------------ properties

\* The routes that name a cipher in their path.
CipherRoutes ==
    {"get_cipher", "put_cipher", "post_attachment", "delete_attachment", "delete_cipher"}

\* The step handles a request that names a cipher of another user.
NamesForeignCipher ==
    /\ last'.op \in CipherRoutes
    /\ last'.uuid \in DOMAIN ciphers
    /\ ciphers[last'.uuid].user_uuid # last'.user

\* C1: a request that names a cipher owned by another user fails with an error
\* before anything is changed or disclosed: the cipher table, the attachment
\* table and the files are as before, and no JSON is returned.
C1_ForeignCipherRequestFails ==
    [][NamesForeignCipher =>
        /\ last'.res \in {"Cipher is not owned by user", "Attachment doesn't exist",
                          "Attachment from other cipher"}
        /\ last'.body = None
        /\ ciphers' = ciphers
        /\ attachments' = attachments
        /\ blobs' = blobs]_vars

\* C1 witness: a user asked to delete an attachment of another user's cipher,
\* naming that cipher, and was refused.
C1_Witness ==
    /\ last.op = "delete_attachment"
    /\ last.res = "Cipher is not owned by user"
    /\ last.req \in DOMAIN attachments
    /\ attachments[last.req].cipher_uuid = last.uuid
    /\ ciphers[last.uuid].user_uuid # last.user

\* C2: the owner's delete_cipher on an existing cipher completes; when it has,
\* every attachment row of the cipher, every file of those rows (whether or not
\* the file was still there) and the cipher row are gone; and a get_cipher for
\* that uuid handled next fails with "Cipher doesn't exist".
C2_DeleteCipherCascades ==
    [][/\ (/\ last'.op = "delete_cipher"
           /\ last'.uuid \in DOMAIN ciphers
           /\ ciphers[last'.uuid].user_uuid = last'.user) => last'.res = "ok"
       /\ (last'.op = "delete_cipher" /\ last'.res = "ok") =>
            /\ last'.uuid \notin DOMAIN ciphers'
            /\ Attachment_find_by_cipher(attachments', last'.uuid) = {}
            /\ \A id \in Attachment_find_by_cipher(attachments, last'.uuid) :
                /\ id \notin DOMAIN attachments'
                /\ get_file_path(attachments[id]) \notin blobs'
            /\ last'.out = Attachment_find_by_cipher(attachments, last'.uuid)
       /\ (/\ last.op = "delete_cipher" /\ last.res = "ok"
           /\ last'.op = "get_cipher" /\ last'.uuid = last.uuid) =>
            last'.res = "Cipher doesn't exist"]_vars

\* C2 witness: a delete_cipher that completed on a cipher with two attachments.
C2_Witness ==
    /\ last.op = "delete_cipher"
    /\ last.res = "ok"
    /\ Cardinality(last.out) >= 2

\* The attachment rows of the user's ciphers.
Attachments_of_user(table, user) ==
    {id \in DOMAIN table : table[id].cipher_uuid \in Cipher_find_by_user(user)}

\* C3: delete_all with a wrong password hash fails with "Invalid password" and
\* leaves every table and the files as they were; with the right hash it
\* completes, and then the user has no cipher, no attachment (no row is left
\* of any cipher the user had) and no folder.
C3_PurgeAll ==
    [][last'.op = "delete_all" =>
        IF last'.req # password_hash[last'.user]
        THEN /\ last'.res = "Invalid password"
             /\ UNCHANGED <<ciphers, attachments, folders, blobs>>
        ELSE /\ last'.res = "ok"
             /\ {k \in DOMAIN ciphers' : ciphers'[k].user_uuid = last'.user} = {}
             /\ {k \in DOMAIN folders' : folders'[k].user_uuid = last'.user} = {}
             /\ \A id \in Attachments_of_user(attachments, last'.user) :
                    id \notin DOMAIN attachments']_vars

\* C3 witness: a purge that completed for a user who had ciphers, attachments
\* and folders.
C3_Witness ==
    /\ last.op = "delete_all"
    /\ last.res = "ok"
    /\ last.out.ciphers # {}
    /\ last.out.attachments # {}
    /\ last.out.folders # {}

\* The step handles a create or a replace that gets as far as the merger: a
\* create always does, a replace does when the cipher exists and is the user's.
ReachesMerger ==
    \/ last'.op = "post_ciphers"
    \/ /\ last'.op = "put_cipher"
       /\ last'.uuid \in DOMAIN ciphers
       /\ ciphers[last'.uuid].user_uuid = last'.user

\* C4: a create or replace that supplies a folder id fails with "Folder is not
\* owned by user" when the folder is another user's and with "Folder doesn't
\* exist" when there is no such folder, and the cipher table is then as before
\* (the target row of a replace is unchanged, a create persists no row).
C4_FolderReferenceValidated ==
    [][(ReachesMerger /\ last'.req.folderId # None) =>
        LET f == last'.req.folderId[1]
        IN  /\ f \notin DOMAIN folders =>
                /\ last'.res = "Folder doesn't exist"
                /\ ciphers' = ciphers
            /\ (f \in DOMAIN folders /\ folders[f].user_uuid # last'.user) =>
                /\ last'.res = "Folder is not owned by user"
                /\ ciphers' = ciphers]_vars

\* C4 witness: a replace of the user's own cipher was refused because the
\* folder it named belongs to another user.
C4_Witness ==
    /\ last.op = "put_cipher"
    /\ last.res = "Folder is not owned by user"
    /\ last.uuid \in DOMAIN ciphers
    /\ ciphers[last.uuid].user_uuid = last.user
    /\ folders[last.req.folderId[1]].user_uuid # last.user

\* What update_cipher_from_data checks before it looks at the discriminant: a
\* supplied folder id names a folder of the user, and a supplied custom-fields
\* value is a list.
PassesEarlierChecks(data, user) ==
    /\ \/ data.folderId = None
       \/ /\ data.folderId[1] \in DOMAIN folders
          /\ folders[data.folderId[1]].user_uuid = user
    /\ data.fields = None \/ data.fields[1].t = "array"

\* C9: a create whose discriminant is outside {1,2,3,4} fails and persists no
\* cipher row; the failure is "Invalid type" whenever the request passes the
\* checks made before the discriminant is looked at.
C9_InvalidTypeRejected ==
    [][(last'.op = "post_ciphers" /\ last'.req.type_ \notin 1..4) =>
        /\ last'.res # "ok"
        /\ ciphers' = ciphers
        /\ next_cipher' = next_cipher
        /\ PassesEarlierChecks(last'.req, last'.user) => last'.res = "Invalid type"]_vars

\* C9 witness: a create with discriminant 5 that carried every typed payload
\* was refused with "Invalid type".
C9_Witness ==
    /\ last.op = "post_ciphers"
    /\ last.req.type_ = 5
    /\ last.req.login # None
    /\ last.req.identity # None
    /\ last.res = "Invalid type"

\* The typed payload of a request for discriminant d.
SlotOf(data, d) ==
    CASE d = 1 -> data.login
      [] d = 2 -> data.secureNote
      [] d = 3 -> data.card
      [] d = 4 -> data.identity

\* C10: a create with a discriminant d in {1,2,3,4} whose request lacks the
\* typed payload of d, whatever other typed payloads it has, fails and
\* persists no cipher row; the failure is "Data missing" whenever the request
\* passes the checks made before the discriminant is looked at.
C10_MissingPayloadRejected ==
    [][(/\ last'.op = "post_ciphers"
        /\ last'.req.type_ \in 1..4
        /\ SlotOf(last'.req, last'.req.type_) = None) =>
        /\ last'.res # "ok"
        /\ ciphers' = ciphers
        /\ next_cipher' = next_cipher
        /\ PassesEarlierChecks(last'.req, last'.user) => last'.res = "Data missing"]_vars

\* C10 witness: a create with discriminant 1 that carried a secureNote payload
\* and no login payload was refused with "Data missing".
C10_Witness ==
    /\ last.op = "post_ciphers"
    /\ last.req.type_ = 1
    /\ last.req.login = None
    /\ last.req.secureNote # None
    /\ last.res = "Data missing"

\* The stored payload of a row, as an object, and its keys besides the
\* envelope's.
PayloadOf(row) == row.data.text[1].v

PayloadKeys(row) == DOMAIN PayloadOf(row) \ {kName, kNotes, kFields}

\* The keys of the typed payload of discriminant d in the correct case.
TypedKeys(d) == {upcase_first(k) : k \in DOMAIN TypedObject(d).v}

\* C7: every stored cipher's payload has the shape of the typed payload its
\* own type_ selects.
C7_PayloadMatchesType ==
    \A uuid \in DOMAIN ciphers :
        /\ ciphers[uuid].type_ \in 1..4
        /\ PayloadKeys(ciphers[uuid]) = TypedKeys(ciphers[uuid].type_)

\* C8: a replace that succeeds leaves the row with the notes, the custom
\* fields and the payload envelope of the request, also when the request has
\* no notes or no custom fields; folder and organization change only when
\* supplied, and favorite is the request's.
C8_ReplaceIsFull ==
    [][(last'.op = "put_cipher" /\ last'.res = "ok") =>
        LET row == ciphers'[last'.uuid]
            old == ciphers[last'.uuid]
            req == last'.req
        IN  /\ row.notes = req.notes
            /\ row.fields = IF req.fields = None THEN None
                            ELSE Some(to_string(req.fields[1]))
            /\ PayloadOf(row)[kNotes] = JOptString(req.notes)
            /\ (req.fields = None) = (PayloadOf(row)[kFields] = JNull)
            /\ row.folder_uuid = IF req.folderId = None THEN old.folder_uuid
                                 ELSE req.folderId
            /\ row.organization_uuid = IF req.organizationId = None
                                       THEN old.organization_uuid
                                       ELSE req.organizationId
            /\ row.favorite = req.favorite]_vars

\* The keys of a relationship list are unique, and its folder indexes are
\* below n.
UniqueKeys(rs) == \A i, j \in 1..Len(rs) : rs[i].key = rs[j].key => i = j

IndexesBelow(rs, n) == \A i \in 1..Len(rs) : rs[i].value < n

HasKey(rs, i) == \E k \in 1..Len(rs) : rs[k].key = i

\* R[i]: the folder index a relationship list with unique keys gives cipher i.
FolderIndexOf(rs, i) == rs[CHOOSE k \in 1..Len(rs) : rs[k].key = i].value

\* A cipher request that merges whatever the vault holds: no folder id, a
\* discriminant in 1..4 and an object as the typed payload of it.
MergesAlone(data) ==
    /\ data.folderId = None
    /\ data.fields = None
    /\ data.type_ \in 1..4
    /\ SlotOf(data, data.type_) # None
    /\ SlotOf(data, data.type_)[1].t = "object"

\* C5: after an import of n folder requests and m cipher requests whose
\* relationship list has unique keys and folder indexes below n, the n folders
\* were created for the user in request order; the import had no fault; when it
\* succeeded, m ciphers were persisted in request order and cipher i (0-based)
\* is in the folder created from folder request R[i] when i is a key of R and
\* in no folder when it is not; and it did succeed when every cipher request
\* merges.
C5_ImportMapsRelationships ==
    (/\ last.op = "post_ciphers_import"
     /\ UniqueKeys(last.req.folderRelationships)
     /\ IndexesBelow(last.req.folderRelationships, Len(last.req.folders))) =>
        LET rs == last.req.folderRelationships
            n == Len(last.req.folders)
            m == Len(last.req.ciphers)
            made == last.out.folders
        IN  /\ last.res \in {"ok", "Error creating cipher"}
            /\ Len(made) = n
            /\ \A j \in 1..n :
                /\ made[j] \in DOMAIN folders
                /\ folders[made[j]].user_uuid = last.user
                /\ folders[made[j]].name = last.req.folders[j].name
                /\ \A k \in 1..n : made[k] = made[j] => k = j
            /\ last.res = "ok" =>
                /\ Len(last.out.ciphers) = m
                /\ \A i \in 0..(m - 1) :
                    LET uuid == last.out.ciphers[i + 1]
                    IN  /\ uuid \in DOMAIN ciphers
                        /\ ciphers[uuid].user_uuid = last.user
                        /\ ciphers[uuid].type_ = last.req.ciphers[i + 1].type_
                        /\ \A k \in 0..(m - 1) : last.out.ciphers[k + 1] = uuid => k = i
                        /\ ciphers[uuid].folder_uuid =
                               IF HasKey(rs, i) THEN Some(made[FolderIndexOf(rs, i) + 1])
                               ELSE None
            /\ (\A i \in 1..m : MergesAlone(last.req.ciphers[i])) => last.res = "ok"

\* C5 witness: the import of two folders and three ciphers with the
\* relationships {0:1, 2:0} succeeded.
C5_Witness ==
    /\ last.op = "post_ciphers_import"
    /\ last.res = "ok"
    /\ Len(last.req.folders) = 2
    /\ Len(last.req.ciphers) = 3
    /\ last.req.folderRelationships = <<Relation(0, 1), Relation(2, 0)>>
    /\ ciphers[last.out.ciphers[1]].folder_uuid = Some(last.out.folders[2])
    /\ ciphers[last.out.ciphers[2]].folder_uuid = None
    /\ ciphers[last.out.ciphers[3]].folder_uuid = Some(last.out.folders[1])

\* The multipart body can be read to its end and every part has a filename.
WellFormedUpload(data) ==
    /\ data.boundary
    /\ data.end = "eof"
    /\ \A i \in 1..Len(data.parts) : data.parts[i].filename # None

\* C6: an upload to a cipher the user owns leaves every attachment row there
\* was as it was and creates no row for a part whose save failed; when the
\* body is well formed, the request succeeds and creates exactly one row for
\* each part whose save succeeded, with that part's file, also for the parts
\* after one that failed.
C6_UploadRowsForSavedParts ==
    [][(/\ last'.op = "post_attachment"
        /\ last'.uuid \in DOMAIN ciphers
        /\ ciphers[last'.uuid].user_uuid = last'.user) =>
        LET parts == last'.req.parts
            id(i) == next_file + i - 1
            new == DOMAIN attachments' \ DOMAIN attachments
        IN  /\ \A old \in DOMAIN attachments :
                old \in DOMAIN attachments' /\ attachments'[old] = attachments[old]
            /\ new \subseteq {id(i) : i \in 1..Len(parts)}
            /\ \A i \in 1..Len(parts) : parts[i].save # "Full" => id(i) \notin new
            /\ WellFormedUpload(last'.req) =>
                /\ last'.res = "ok"
                /\ \A i \in 1..Len(parts) :
                    parts[i].save = "Full" =>
                        /\ id(i) \in new
                        /\ attachments'[id(i)] =
                               Attachment_new(id(i), last'.uuid, parts[i].filename[1],
                                              parts[i].size)
                        /\ get_file_path(attachments'[id(i)]) \in blobs'
                /\ Cardinality(new) =
                       Cardinality({i \in 1..Len(parts) : parts[i].save = "Full"})]_vars

\* C6 witness: an upload of two parts succeeded whose first part failed to
\* save and whose second part was saved, with exactly one row, the second's.
C6_Witness ==
    /\ last.op = "post_attachment"
    /\ last.res = "ok"
    /\ Len(last.req.parts) = 2
    /\ last.req.parts[1].save = "Error"
    /\ last.req.parts[2].save = "Full"
    /\ Len(last.out) = 1
    /\ last.out[1] \in DOMAIN attachments
    /\ Attachment_find_by_cipher(attachments, last.uuid) = {last.out[1]}

\* Only the typed payload of the request's discriminant is populated, with an
\* object.
OnlyMatching(data) ==
    /\ data.type_ \in 1..4
    /\ SlotOf(data, data.type_) # None
    /\ SlotOf(data, data.type_)[1].t = "object"
    /\ \A d \in 1..4 \ {data.type_} : SlotOf(data, d) = None

\* C11: a create or replace that reaches the merger with only the matching
\* typed payload populated, an object, and passes the folder and fields checks
\* succeeds; the keys of the stored payload are exactly Name, Notes, Fields and
\* the first-letter-upper-cased keys of the typed payload; every payload entry
\* is stored under its upper-cased key, also when that key is the envelope's;
\* and the envelope's entries that no payload key collides with are the
\* request's name, notes and fields.
C11_PayloadKeysAreUnion ==
    [][(/\ ReachesMerger
        /\ OnlyMatching(last'.req)
        /\ PassesEarlierChecks(last'.req, last'.user)) =>
        /\ last'.res = "ok"
        /\ LET req == last'.req
               uuid == IF last'.op = "post_ciphers" THEN last'.out[1] ELSE last'.uuid
               payload == PayloadOf(ciphers'[uuid])
               obj == SlotOf(req, req.type_)[1].v
               up == {upcase_first(k) : k \in DOMAIN obj}
           IN  /\ DOMAIN payload = {kName, kNotes, kFields} \cup up
               /\ \A k \in DOMAIN obj :
                    (\A o \in DOMAIN obj : upcase_first(o) = upcase_first(k) => o = k)
                        => payload[upcase_first(k)] = obj[k]
               /\ kName \notin up => payload[kName] = JString(req.name)
               /\ kNotes \notin up => payload[kNotes] = JOptString(req.notes)
               /\ kFields \notin up =>
                    (req.fields = None) = (payload[kFields] = JNull)]_vars

\* C11 witness: a create whose login payload has a key "name" succeeded, and
\* the stored Name is the payload's value, not the request's name.
C11_Witness ==
    /\ last.op = "post_ciphers"
    /\ last.res = "ok"
    /\ last.req.login = Some(CollidingObject)
    /\ PayloadOf(ciphers[last.out[1]])[kName] = JString("y")
    /\ last.req.name # "y"
    /\ DOMAIN PayloadOf(ciphers[last.out[1]]) = {kName, kNotes, kFields, upcase_first(kUri)}

\* The routes of C12: get, replace, attachment upload and delete of a cipher.
ProbedRoutes == {"get_cipher", "put_cipher", "post_attachment", "delete_cipher"}

\* The response of these routes to an id that no cipher has.
MissingResponse == "Cipher doesn't exist"

\* C12: a get, replace, upload or delete on a cipher id the requester does not
\* own gets one and the same response, without a body, whether the id is
\* another user's cipher or no cipher at all: the response an id of no cipher
\* gets.
C12_UnownedIndistinguishable ==
    [][(/\ last'.op \in ProbedRoutes
        /\ \/ last'.uuid \notin DOMAIN ciphers
           \/ ciphers[last'.uuid].user_uuid # last'.user) =>
        /\ last'.res = MissingResponse
        /\ last'.body = None]_vars

\* The half of C12 that holds: an id of no cipher gets MissingResponse.
MissingCipherResponse ==
    [][(last'.op \in ProbedRoutes /\ last'.uuid \notin DOMAIN ciphers) =>
        (last'.res = MissingResponse /\ last'.body = None)]_vars

\* C13: copy_values on an object returns true and leaves the target with its
\* own entries that no key of the object collides with, and with every entry
\* of the object under the key with its first character upper-cased and the
\* value as it was, nested objects included (of two keys of the object that
\* differ in the case of the first character only, one value is kept); on
\* anything that is no object it returns false and the target is as before.
C13_NormalizerContract ==
    last.op = "copy_values" =>
        LET from == last.req.from
            to == last.req.to
            out == last.body[1]
            up == {upcase_first(k) : k \in DOMAIN from.v}
        IN  IF from.t = "object"
            THEN /\ last.res = "true"
                 /\ out.t = "object"
                 /\ DOMAIN out.v = DOMAIN to.v \cup up
                 /\ \A k \in DOMAIN from.v :
                        /\ out.v[upcase_first(k)] \in
                               {from.v[o] : o \in {x \in DOMAIN from.v :
                                                      upcase_first(x) = upcase_first(k)}}
                        /\ (\A o \in DOMAIN from.v :
                                upcase_first(o) = upcase_first(k) => o = k)
                            => out.v[upcase_first(k)] = from.v[k]
                 /\ \A k \in DOMAIN to.v \ up : out.v[k] = to.v[k]
            ELSE /\ last.res = "false"
                 /\ out = to

\* C13 witness: {username: a, password: b} was normalized into the empty
\* object and gave {Username: a, Password: b}.
C13_Witness ==
    /\ last.op = "copy_values"
    /\ last.req.from = JObject((kusername :> JString("a")) @@ (kpassword :> JString("b")))
    /\ last.req.to = JObject(<<>>)
    /\ last.res = "true"
    /\ last.body[1] = JObject((upcase_first(kusername) :> JString("a"))
                              @@ (upcase_first(kpassword) :> JString("b")))
    /\ upcase_first(kusername) = <<85, 115, 101, 114, 110, 97, 109, 101>>

\* The folder index the relationship list gives cipher i: the value of the
\* last relationship of key i.
ResolvedIndex(rs, i) ==
    LET at == {k \in 1..Len(rs) : rs[k].key = i}
    IN  rs[CHOOSE k \in at : \A o \in at : o <= k].value

\* The merger returns an error for the cipher request: its folder id names no
\* folder of the user, its discriminant is outside 1..4, or the typed payload
\* of the discriminant is absent or no object.
MergeErr(data, user) ==
    /\ data.fields = None \/ data.fields[1].t = "array"
    /\ ~ /\ PassesEarlierChecks(data, user)
         /\ data.type_ \in 1..4
         /\ SlotOf(data, data.type_) # None
         /\ SlotOf(data, data.type_)[1].t = "object"

\* C14: when position k is the first cipher request of an import whose merge
\* returns an error, and the relationships of the positions up to k name
\* created folders, the import fails with "Error creating cipher"; every folder
\* of the request is persisted, the ciphers of positions 0..k-1 are persisted,
\* and no other cipher is.
C14_ImportAbortsWithoutRollback ==
    (/\ last.op = "post_ciphers_import"
     /\ \E i \in 1..Len(last.req.ciphers) : MergeErr(last.req.ciphers[i], last.user)) =>
        LET cs == last.req.ciphers
            rs == last.req.folderRelationships
            n == Len(last.req.folders)
            k == (CHOOSE i \in 1..Len(cs) :
                    /\ MergeErr(cs[i], last.user)
                    /\ \A j \in 1..(i - 1) : ~MergeErr(cs[j], last.user)) - 1
        IN  (\A i \in 0..k : HasKey(rs, i) => ResolvedIndex(rs, i) < n) =>
                /\ last.res = "Error creating cipher"
                /\ Len(last.out.folders) = n
                /\ \A j \in 1..n :
                    /\ last.out.folders[j] \in DOMAIN folders
                    /\ folders[last.out.folders[j]].user_uuid = last.user
                /\ Len(last.out.ciphers) = k
                /\ \A i \in 1..k :
                    /\ last.out.ciphers[i] \in DOMAIN ciphers
                    /\ ciphers[last.out.ciphers[i]].user_uuid = last.user
                    /\ ciphers[last.out.ciphers[i]].type_ = cs[i].type_
                /\ DOMAIN ciphers = {last.out.ciphers[i] : i \in 1..k}
                /\ Cardinality(DOMAIN ciphers) = k

\* C14 witness: an import of two folders and three ciphers failed at its third
\* cipher; the two folders and the first two ciphers are persisted.
C14_Witness ==
    /\ last.op = "post_ciphers_import"
    /\ last.res = "Error creating cipher"
    /\ Len(last.req.ciphers) = 3
    /\ Len(last.req.folders) = 2
    /\ MergeErr(last.req.ciphers[3], last.user)
    /\ Cardinality(DOMAIN ciphers) = 2
    /\ \A j \in 1..2 : last.out.folders[j] \in DOMAIN folders

\* C16: an import whose cipher requests all merge runs to completion, and
\* cipher i is persisted in the created folder its relationship names when the
\* position has a relationship and the folder index is a position of a created
\* folder, and in no folder otherwise, so also when the folder index is past
\* the created folders.
C16_UnknownFolderIndexTolerated ==
    (/\ last.op = "post_ciphers_import"
     /\ \A i \in 1..Len(last.req.ciphers) : MergesAlone(last.req.ciphers[i])) =>
        LET rs == last.req.folderRelationships
            n == Len(last.req.folders)
            m == Len(last.req.ciphers)
        IN  /\ last.res = "ok"
            /\ Len(last.out.ciphers) = m
            /\ \A i \in 0..(m - 1) :
                ciphers[last.out.ciphers[i + 1]].folder_uuid =
                    IF HasKey(rs, i) /\ ResolvedIndex(rs, i) < n
                    THEN Some(last.out.folders[ResolvedIndex(rs, i) + 1])
                    ELSE None

\* C19: in an import, a cipher request whose folderId names no folder, or a
\* folder of another user, makes the import fail, and that cipher is not
\* persisted; and in an import that succeeds every cipher is persisted in the
\* created folder its relationship resolves to, or in no folder when it has no
\* relationship, whatever folderId its request carries.
C19_ImportFolderFromRelationships ==
    last.op = "post_ciphers_import" =>
        LET cs == last.req.ciphers
            rs == last.req.folderRelationships
        IN  /\ \A i \in 1..Len(cs) :
                (/\ cs[i].folderId # None
                 /\ \/ cs[i].folderId[1] \notin DOMAIN folders
                    \/ folders[cs[i].folderId[1]].user_uuid # last.user) =>
                    /\ last.res # "ok"
                    /\ Len(last.out.ciphers) < i
            /\ last.res = "ok" =>
                \A i \in 1..Len(cs) :
                    ciphers[last.out.ciphers[i]].folder_uuid =
                        IF HasKey(rs, i - 1)
                        THEN Some(last.out.folders[ResolvedIndex(rs, i - 1) + 1])
                        ELSE None

\* C19 witness: an import succeeded in which one cipher request carried a
\* folderId and no relationship, and is persisted in no folder, and another
\* carried the same folderId and is persisted in a different, created folder.
C19_Witness ==
    /\ last.op = "post_ciphers_import"
    /\ last.res = "ok"
    /\ \E i \in 1..Len(last.req.ciphers) :
        /\ last.req.ciphers[i].folderId # None
        /\ ciphers[last.out.ciphers[i]].folder_uuid = None
    /\ \E i \in 1..Len(last.req.ciphers) :
        /\ last.req.ciphers[i].folderId # None
        /\ ciphers[last.out.ciphers[i]].folder_uuid # None
        /\ ciphers[last.out.ciphers[i]].folder_uuid # last.req.ciphers[i].folderId

\* C20: a delete_all or delete_cipher request of a user, whatever its result,
\* leaves as they were every cipher and folder of any other user, every
\* attachment row of another user's cipher, and every file stored under
\* another user's cipher.
C20_OtherUsersUntouched ==
    [][last'.op \in {"delete_all", "delete_cipher"} =>
        LET theirs == {k \in DOMAIN ciphers : ciphers[k].user_uuid # last'.user}
        IN  /\ \A k \in theirs : k \in DOMAIN ciphers' /\ ciphers'[k] = ciphers[k]
            /\ \A f \in DOMAIN folders :
                folders[f].user_uuid # last'.user =>
                    f \in DOMAIN folders' /\ folders'[f] = folders[f]
            /\ \A id \in DOMAIN attachments :
                attachments[id].cipher_uuid \in theirs =>
                    id \in DOMAIN attachments' /\ attachments'[id] = attachments[id]
            /\ \A path \in blobs : path[1] \in theirs => path \in blobs']_vars

\* C20 witness: a purge completed and deleted ciphers of its user while
\* another user had a cipher with an attachment and its file, and a folder,
\* all of which are still there.
C20_Witness ==
    /\ last.op = "delete_all"
    /\ last.res = "ok"
    /\ last.out.ciphers # {}
    /\ \E id \in DOMAIN attachments :
        /\ attachments[id].cipher_uuid \in DOMAIN ciphers
        /\ ciphers[attachments[id].cipher_uuid].user_uuid # last.user
        /\ get_file_path(attachments[id]) \in blobs
    /\ \E f \in DOMAIN folders : folders[f].user_uuid # last.user

\* Every request under way has completed.
AllCompleted == \A r \in DOMAIN inflight : inflight[r].pc = "done"

\* The replace requests that have saved.
Saved == {r \in DOMAIN inflight : inflight[r].op = "put_cipher" /\ inflight[r].res = "ok"
                                  /\ inflight[r].pc = "done"}

\* C17: once the interleaved replace requests have completed, and the request
\* that saved last is w, the stored row is, in every field, the row w saved:
\* the row w had fetched with w's favorite and w's merge applied.  A folder,
\* organization or notes value that w did not supply is the one of the row w
\* fetched, not the one another request saved in between.
C17_LastWriteWins ==
    (/\ AllCompleted
     /\ last.op = "put_cipher"
     /\ last.res = "ok") =>
        LET w == last.out[1]
            req == inflight[w]
            row == ciphers[req.uuid]
            old == req.found[1]
        IN  /\ w \in Saved
            /\ row = req.cipher[1]
            /\ row = update_cipher_from_data([old EXCEPT !.favorite = req.data.favorite],
                                             req.data, req.user, folders).cipher
            /\ row.notes = IF req.data.notes = None THEN old.notes ELSE req.data.notes
            /\ row.folder_uuid = IF req.data.folderId = None THEN old.folder_uuid
                                 ELSE req.data.folderId
            /\ row.organization_uuid = IF req.data.organizationId = None
                                       THEN old.organization_uuid
                                       ELSE req.data.organizationId

\* C17 witness: two replaces of one cipher have both saved; the one that saved
\* first supplied notes, an organization and a folder, the one that saved last
\* had fetched the row before that and supplied none of them, and the stored
\* row has none of them.
C17_Witness ==
    /\ AllCompleted
    /\ Cardinality(Saved) = 2
    /\ last.op = "put_cipher"
    /\ last.res = "ok"
    /\ \E o \in Saved \ {last.out[1]} :
        /\ inflight[o].uuid = last.uuid
        /\ inflight[o].data.notes # None
        /\ inflight[o].data.organizationId # None
        /\ inflight[o].data.folderId # None
    /\ last.req.notes = None
    /\ last.req.organizationId = None
    /\ last.req.folderId = None
    /\ ciphers[last.uuid].notes = None
    /\ ciphers[last.uuid].organization_uuid = None
    /\ ciphers[last.uuid].folder_uuid = None

\* C15: in every step of the uploads, also of one that is aborted part-way, a
\* new attachment row is written by an upload that has saved the part's file
\* in full, and that file is there before the step and after it; and every
\* attachment row there is has its file.
C15_RowOnlyAfterBlob ==
    [][/\ \A id \in DOMAIN attachments' \ DOMAIN attachments :
            /\ get_file_path(attachments'[id]) \in blobs
            /\ get_file_path(attachments'[id]) \in blobs'
            /\ \E r \in DOMAIN inflight :
                /\ inflight[r].op = "post_attachment"
                /\ inflight[r].pc = "row"
                /\ inflight[r].file_name = id
                /\ inflight[r].data.parts[inflight[r].i].save = "Full"
       /\ \A id \in DOMAIN attachments' :
            get_file_path(attachments'[id]) \in blobs']_vars

\* C15 witness: an upload was aborted after it had written the row of its
\* first part and saved the file of its second: the file has no row, and the
\* row there is has its file.
C15_Witness ==
    \E r \in DOMAIN inflight :
        /\ inflight[r].op = "post_attachment"
        /\ inflight[r].res = "aborted"
        /\ Len(inflight[r].made) = 1
        /\ inflight[r].made[1] \in DOMAIN attachments
        /\ get_file_path(attachments[inflight[r].made[1]]) \in blobs
        /\ \E path \in blobs : path[1] = inflight[r].uuid /\ path[2] \notin DOMAIN attachments

\* C18: once every request under way has completed, every attachment row
\* belongs to a cipher that exists.
C18_NoRowOutlivesCipher ==
    AllCompleted =>
        \A id \in DOMAIN attachments : attachments[id].cipher_uuid \in DOMAIN ciphers

====
